---- MODULE Spec2Model ----
(***************************************************************************)
(* Credential-protection subsystem of the OrangeHRM Playwright framework:  *)
(* EncryptionService (AES-GCM over an Argon2id key), the .env rewrite of   *)
(* EncryptionServiceUtils and the secret store of EnvironmentFileManager.  *)
(*                                                                         *)
(* A JavaScript string is a sequence of tokens.  A token is one UTF-16     *)
(* code unit (" ", "=", "A", ...), or one lexical unit of the serialized   *)
(* EncryptionParameters: a member opener ("salt:" stands for the text      *)
(* "salt":" and the quote and comma before it), a base64 salt or IV, one   *)
(* encrypted byte, the GCM tag.  NL is the line feed, BOM is U+FEFF, HS is *)
(* a lone high surrogate, RC is U+FFFD.                                    *)
(***************************************************************************)
EXTENDS Integers, Sequences, FiniteSets, TLC

NL == "\n"
BOM == "BOM"
HS == "HS"
RC == "RC"

\* String.prototype.trim strips WhiteSpace and LineTerminator; U+FEFF is WhiteSpace.
TrimSpace == {" ", BOM, NL}
\* JSON.parse skips only tab, LF, CR and space around a value.
JsonSpace == {" ", NL}
Markers == {"salt:", "iv:", "cipherText:"}

RECURSIVE TrimStart(_)
TrimStart(s) ==
  IF s # <<>> /\ Head(s) \in TrimSpace THEN TrimStart(Tail(s)) ELSE s

RECURSIVE TrimEnd(_)
TrimEnd(s) ==
  IF s # <<>> /\ s[Len(s)] \in TrimSpace THEN TrimEnd(SubSeq(s, 1, Len(s) - 1)) ELSE s

Trim(s) == TrimEnd(TrimStart(s))

StartsWith(s, p) == Len(s) >= Len(p) /\ SubSeq(s, 1, Len(p)) = p

EndsWith(s, p) == Len(s) >= Len(p) /\ SubSeq(s, Len(s) - Len(p) + 1, Len(s)) = p

\* String.prototype.indexOf(c, i), counted from 1; 0 when c does not occur.
RECURSIVE IndexOf(_, _, _)
IndexOf(s, c, i) ==
  IF i > Len(s) THEN 0 ELSE IF s[i] = c THEN i ELSE IndexOf(s, c, i + 1)

\* String.prototype.split(sep) for a one-token separator: always at least one part.
RECURSIVE Split(_, _)
Split(s, sep) ==
  LET p == IndexOf(s, sep, 1) IN
  IF p = 0 THEN <<s>>
  ELSE <<SubSeq(s, 1, p - 1)>> \o Split(SubSeq(s, p + 1, Len(s)), sep)

\* Array.prototype.join(sep).
RECURSIVE Join(_, _)
Join(parts, sep) ==
  IF parts = <<>> THEN <<>>
  ELSE IF Len(parts) = 1 THEN parts[1]
  ELSE parts[1] \o <<sep>> \o Join(Tail(parts), sep)

Includes(s, c) == IndexOf(s, c, 1) # 0

\* The concatenation of the tokens of s as one TLA+ string (used inside the GCM tag).
RECURSIVE Flat(_)
Flat(s) == IF s = <<>> THEN "" ELSE Head(s) \o "." \o Flat(Tail(s))

(***************************************************************************)
(* JSON.stringify / JSON.parse of EncryptionParameters.                    *)
(***************************************************************************)
NoObject == [ok |-> FALSE, hasSalt |-> FALSE, salt |-> <<>>, hasIv |-> FALSE, iv |-> <<>>,
             hasCipherText |-> FALSE, cipherText |-> <<>>]

EmptyObject == [NoObject EXCEPT !.ok = TRUE]

\* A serialization that leaves the iv member out.
JSONStringifyNoIv(p) ==
  <<"{">> \o <<"salt:">> \o p.salt \o <<"cipherText:">> \o p.cipherText \o <<"}">>

JSONStringify(p) ==
  <<"{">> \o <<"salt:">> \o p.salt \o <<"iv:">> \o p.iv
          \o <<"cipherText:">> \o p.cipherText \o <<"}">>

\* The members of an object body, left to right; a later member of the same name wins.
\* cur is the member being read ("" before the first opener).
RECURSIVE ParseMembers(_, _, _)
ParseMembers(body, cur, acc) ==
  IF body = <<>> THEN acc
  ELSE LET t == Head(body) IN
    IF t \in Markers THEN
      ParseMembers(Tail(body), t,
        CASE t = "salt:" -> [acc EXCEPT !.hasSalt = TRUE, !.salt = <<>>]
          [] t = "iv:" -> [acc EXCEPT !.hasIv = TRUE, !.iv = <<>>]
          [] OTHER -> [acc EXCEPT !.hasCipherText = TRUE, !.cipherText = <<>>])
    ELSE IF cur = "" /\ t \in JsonSpace THEN ParseMembers(Tail(body), cur, acc)
    ELSE IF cur = "" \/ t \in {"{", "}"} THEN NoObject
    ELSE ParseMembers(Tail(body), cur,
        CASE cur = "salt:" -> [acc EXCEPT !.salt = @ \o <<t>>]
          [] cur = "iv:" -> [acc EXCEPT !.iv = @ \o <<t>>]
          [] OTHER -> [acc EXCEPT !.cipherText = @ \o <<t>>])

RECURSIVE SkipJsonSpace(_)
SkipJsonSpace(s) ==
  IF s # <<>> /\ Head(s) \in JsonSpace THEN SkipJsonSpace(Tail(s))
  ELSE IF s # <<>> /\ s[Len(s)] \in JsonSpace THEN SkipJsonSpace(SubSeq(s, 1, Len(s) - 1))
  ELSE s

\* JSON.parse: ok = FALSE stands for the SyntaxError it throws.
JSONParse(text) ==
  LET t == SkipJsonSpace(text) IN
  IF Len(t) >= 2 /\ Head(t) = "{" /\ t[Len(t)] = "}"
  THEN ParseMembers(SubSeq(t, 2, Len(t) - 1), "", EmptyObject)
  ELSE NoObject

(***************************************************************************)
(* EncryptionService.  The derived key and the GCM tag are symbolic: the   *)
(* tag names the key, the IV and the bytes it authenticates, so decryption *)
(* recomputes it and compares.                                             *)
(***************************************************************************)
Salts == {"s1", "s2"}
IVs == {"i1", "i2"}
Secrets == {<<"k1">>, <<"k2">>}

\* The code units a plaintext is made of.
CodeUnits == {" ", "=", "#", "{", "}", "A", "B", "x", "y", BOM, HS, RC}

\* UTF-8 length of one code unit (U+FEFF and U+FFFD take three bytes).
ByteLength(c) == IF c \in {BOM, RC} THEN 3 ELSE 1

RECURSIVE ByteLengthOf(_)
ByteLengthOf(s) == IF s = <<>> THEN 0 ELSE ByteLength(Head(s)) + ByteLengthOf(Tail(s))

\* new TextEncoder().encode(value): a lone surrogate is encoded as U+FFFD.
TextEncoderEncode(value) == [i \in 1..Len(value) |-> IF value[i] = HS THEN RC ELSE value[i]]

\* new TextDecoder().decode(buffer): ignoreBOM is false, a leading U+FEFF is dropped.
TextDecoderDecode(bytes) == IF bytes # <<>> /\ Head(bytes) = BOM THEN Tail(bytes) ELSE bytes

deriveKeyWithArgon2(secretKey, salt) == "argon2id(" \o Flat(secretKey) \o "|" \o Flat(salt) \o ")"

GcmTag(key, iv, bytes) == "tag(" \o key \o "|" \o Flat(iv) \o "|" \o Flat(bytes) \o ")"

\* crypto.subtle.encrypt AES-GCM: the encrypted bytes followed by the 128-bit tag.
encryptBuffer(webCryptoIv, key, value) ==
  LET bytes == TextEncoderEncode(value) IN
  [i \in 1..Len(bytes) |-> "~" \o bytes[i]] \o <<GcmTag(key, webCryptoIv, bytes)>>

\* Buffer.toString('base64'): padded with "=" to a multiple of four characters.
Base64Padding(nBytes) == [i \in 1..((3 - (nBytes % 3)) % 3) |-> "="]

\* When the byte count is not a multiple of three, the last character before the
\* padding carries 2 or 4 low bits that encode nothing; the encoder writes them as zero.
\* They are a token of their own ("b0" zero, "b1" anything else); the data bits of
\* that character belong to the token of the last byte.
UnusedBits == {"b0", "b1"}

Base64Slack(nBytes) == IF nBytes % 3 = 0 THEN <<>> ELSE <<"b0">>

\* A character outside the base64 alphabet.
IllegalChar == "!"

\* Buffer.from(text, 'base64'): decoding stops at the first "=", characters outside
\* the alphabet are skipped and the unused low bits of the last character are dropped.
Base64Decode(text) ==
  LET stop == IndexOf(text, "=", 1)
      upToPadding == IF stop = 0 THEN text ELSE SubSeq(text, 1, stop - 1)
      legal == SelectSeq(upToPadding, LAMBDA t : t # IllegalChar)
  IN  IF legal # <<>> /\ legal[Len(legal)] \in UnusedBits
      THEN SubSeq(legal, 1, Len(legal) - 1)
      ELSE legal

\* encrypt that encrypts under one fixed IV instead of the generated one.
encryptFixedIv(value, secretKey, salt, webCryptoIv) ==
  LET key == deriveKeyWithArgon2(secretKey, <<salt>>)
      encryptedBuffer == encryptBuffer(<<"i1">>, key, value)
  IN  [salt |-> <<salt>>,
       iv |-> <<"i1">>,
       cipherText |-> encryptedBuffer
                        \o Base64Slack(ByteLengthOf(TextEncoderEncode(value)) + 16)
                        \o Base64Padding(ByteLengthOf(TextEncoderEncode(value)) + 16)]

encrypt(value, secretKey, salt, webCryptoIv) ==
  LET key == deriveKeyWithArgon2(secretKey, <<salt>>)
      encryptedBuffer == encryptBuffer(<<webCryptoIv>>, key, value)
  IN  [salt |-> <<salt>>,
       iv |-> <<webCryptoIv>>,
       cipherText |-> encryptedBuffer
                        \o Base64Slack(ByteLengthOf(TextEncoderEncode(value)) + 16)
                        \o Base64Padding(ByteLengthOf(TextEncoderEncode(value)) + 16)]

Failed == [ok |-> FALSE, value |-> <<>>]

\* crypto.subtle.decrypt AES-GCM: OperationError unless the tag authenticates the bytes.
decryptBuffer(ivBuffer, key, cipherBuffer) ==
  IF cipherBuffer = <<>> THEN Failed
  ELSE LET body == SubSeq(cipherBuffer, 1, Len(cipherBuffer) - 1)
           isByte(t) == \E c \in CodeUnits : t = "~" \o c
       IN  IF \E i \in 1..Len(body) : ~isByte(body[i]) THEN Failed
           ELSE LET bytes == [i \in 1..Len(body) |->
                                CHOOSE c \in CodeUnits : body[i] = "~" \o c]
                IN  IF cipherBuffer[Len(cipherBuffer)] = GcmTag(key, ivBuffer, bytes)
                    THEN [ok |-> TRUE, value |-> bytes]
                    ELSE Failed

\* ErrorHandler.logAndThrow logs the message and throws.
logAndThrow == TRUE

\* validateParsedData that only asks for the three properties to be there.
validateParsedDataPresent(params) ==
  params.hasSalt /\ params.hasIv /\ params.hasCipherText

\* FALSE: it throws.
validateParsedData(params) ==
  ~(logAndThrow /\ (params.salt = <<>> \/ params.iv = <<>> \/ params.cipherText = <<>>))

\* ok = FALSE: empty input, a JSON syntax error or a missing or empty property.
parseEncryptedData(encryptedData) ==
  IF encryptedData = <<>> THEN NoObject
  ELSE LET parsedData == JSONParse(encryptedData) IN
       IF parsedData.ok /\ validateParsedData(parsedData) THEN parsedData ELSE NoObject

decrypt(encryptedData, secretKey) ==
  LET parsedData == parseEncryptedData(encryptedData) IN
  IF ~parsedData.ok THEN Failed
  ELSE LET key == deriveKeyWithArgon2(secretKey, Base64Decode(parsedData.salt))
           decryptedBuffer == decryptBuffer(Base64Decode(parsedData.iv), key,
                                            Base64Decode(parsedData.cipherText))
       IN  IF decryptedBuffer.ok
           THEN [ok |-> TRUE, value |-> TextDecoderDecode(decryptedBuffer.value)]
           ELSE Failed

\* Where a decrypt call ends: with the error of parseEncryptedData, before the key is
\* derived; with the error of the key derivation or of decryptBuffer; or with a value.
decryptStage(encryptedData, secretKey) ==
  IF ~parseEncryptedData(encryptedData).ok THEN "parseEncryptedData"
  ELSE IF ~decrypt(encryptedData, secretKey).ok THEN "decryptBuffer"
  ELSE "return"

(***************************************************************************)
(* EncryptionServiceUtils: the rewrite of the environment file.            *)
(* A Record<string, string> is the sequence of its <<key, value>> pairs in *)
(* property order (insertion order: no key of the model is an array index).*)
(***************************************************************************)
HasKey(obj, key) == \E i \in 1..Len(obj) : obj[i][1] = key

GetValue(obj, key) == obj[CHOOSE i \in 1..Len(obj) : obj[i][1] = key][2]

Keys(obj) == {obj[i][1] : i \in 1..Len(obj)}

\* A property name that is an array index (a canonical decimal number): such
\* properties are enumerated first, in ascending order, whenever they were created.
Digits == {"1", "2"}

IsArrayIndex(key) == key # <<>> /\ \A i \in 1..Len(key) : key[i] \in Digits

RECURSIVE IndexValue(_)
IndexValue(key) ==
  IF key = <<>> THEN 0
  ELSE 10 * IndexValue(SubSeq(key, 1, Len(key) - 1))
         + (IF key[Len(key)] = "1" THEN 1 ELSE 2)

\* The properties of obj that are enumerated before a new property key.
Before(obj, key) ==
  IF IsArrayIndex(key)
  THEN Cardinality({i \in 1..Len(obj) :
                      IsArrayIndex(obj[i][1]) /\ IndexValue(obj[i][1]) < IndexValue(key)})
  ELSE Len(obj)

\* obj[key] = value: an existing property keeps its place.
SetProperty(obj, key, value) ==
  IF HasKey(obj, key)
  THEN [i \in 1..Len(obj) |-> IF obj[i][1] = key THEN <<key, value>> ELSE obj[i]]
  ELSE SubSeq(obj, 1, Before(obj, key)) \o << <<key, value>> >>
         \o SubSeq(obj, Before(obj, key) + 1, Len(obj))

RECURSIVE ObjectAssign(_, _)
ObjectAssign(target, source) ==
  IF source = <<>> THEN target
  ELSE ObjectAssign(SetProperty(target, source[1][1], source[1][2]), Tail(source))

\* <<>> is null, otherwise <<key, value>>.
parseEnvironmentLine(line) ==
  LET trimmedLine == Trim(line) IN
  IF trimmedLine = <<>> \/ ~Includes(trimmedLine, "=") THEN <<>>
  ELSE LET parts == Split(trimmedLine, "=")
           key == parts[1]
           value == Join(Tail(parts), "=")
       IN  IF key # <<>> /\ value # <<>> THEN <<Trim(key), Trim(value)>> ELSE <<>>

RECURSIVE extractInto(_, _)
extractInto(variables, lines) ==
  IF lines = <<>> THEN variables
  ELSE LET parsedVariable == parseEnvironmentLine(Head(lines)) IN
       extractInto(IF parsedVariable # <<>>
                   THEN SetProperty(variables, parsedVariable[1], parsedVariable[2])
                   ELSE variables,
                   Tail(lines))

extractEnvironmentVariables(lines) == extractInto(<<>>, lines)

findEnvironmentVariable(allEnvVariables, lookupValue) ==
  IF HasKey(allEnvVariables, lookupValue) /\ GetValue(allEnvVariables, lookupValue) # <<>>
  THEN <<<<lookupValue, GetValue(allEnvVariables, lookupValue)>>>>
  ELSE IF \E i \in 1..Len(allEnvVariables) : allEnvVariables[i][2] = lookupValue
  THEN LET i == CHOOSE i \in 1..Len(allEnvVariables) :
                  /\ allEnvVariables[i][2] = lookupValue
                  /\ \A j \in 1..(i - 1) : allEnvVariables[j][2] # lookupValue
       IN  <<allEnvVariables[i]>>
  ELSE <<>>

RECURSIVE assignFound(_, _, _)
assignFound(variablesToEncrypt, allEnvVariables, lookups) ==
  IF lookups = <<>> THEN variablesToEncrypt
  ELSE assignFound(ObjectAssign(variablesToEncrypt,
                                findEnvironmentVariable(allEnvVariables, Head(lookups))),
                   allEnvVariables, Tail(lookups))

\* determineVariablesToEncrypt that takes every entry whatever the lookups are.
determineVariablesToEncryptAll(allEnvVariables, envVariables) ==
  ObjectAssign(<<>>, allEnvVariables)

\* !found, for the object that findEnvironmentVariable returns: an object, the empty
\* object {} included, is truthy.
Not(found) == FALSE

\* The lookups for which determineVariablesToEncrypt logs the warning "not found".
lookupWarnings(allEnvVariables, envVariables) ==
  IF envVariables.given /\ Len(envVariables.list) > 0
  THEN SelectSeq(envVariables.list,
                 LAMBDA lookupValue :
                   Not(findEnvironmentVariable(allEnvVariables, lookupValue)))
  ELSE <<>>

\* envVariables is [given |-> the argument was passed, list |-> the array].
determineVariablesToEncrypt(allEnvVariables, envVariables) ==
  IF envVariables.given /\ Len(envVariables.list) > 0
  THEN assignFound(<<>>, allEnvVariables, envVariables.list)
  ELSE ObjectAssign(<<>>, allEnvVariables)

\* isAlreadyEncrypted that hands the trimmed value to JSON.parse.
isAlreadyEncryptedTrimmed(value) ==
  IF value = <<>> THEN FALSE
  ELSE LET trimmedValue == Trim(value) IN
       IF ~(StartsWith(trimmedValue, <<"{">>) /\ EndsWith(trimmedValue, <<"}">>)) THEN FALSE
       ELSE LET parsedData == JSONParse(trimmedValue) IN
            parsedData.ok /\ parsedData.hasSalt /\ parsedData.hasIv /\ parsedData.hasCipherText

isAlreadyEncrypted(value) ==
  IF value = <<>> THEN FALSE
  ELSE LET trimmedValue == Trim(value) IN
       IF ~(StartsWith(trimmedValue, <<"{">>) /\ EndsWith(trimmedValue, <<"}">>)) THEN FALSE
       ELSE LET parsedData == JSONParse(value) IN
            parsedData.ok /\ parsedData.hasSalt /\ parsedData.hasIv /\ parsedData.hasCipherText

\* updateEnvironmentLines with line.startsWith(envVariable): the "=" is not matched.
updateEnvironmentLinesKeyPrefix(existingLines, envVariable, value) ==
  LET prefix == envVariable \o <<"=">>
      isUpdated == \E i \in 1..Len(existingLines) : StartsWith(existingLines[i], envVariable)
      updatedLines == [i \in 1..Len(existingLines) |->
                         IF StartsWith(existingLines[i], envVariable)
                         THEN prefix \o value
                         ELSE existingLines[i]]
  IN  IF isUpdated THEN updatedLines ELSE Append(updatedLines, prefix \o value)

updateEnvironmentLines(existingLines, envVariable, value) ==
  LET prefix == envVariable \o <<"=">>
      isUpdated == \E i \in 1..Len(existingLines) : StartsWith(existingLines[i], prefix)
      updatedLines == [i \in 1..Len(existingLines) |->
                         IF StartsWith(existingLines[i], prefix)
                         THEN prefix \o value
                         ELSE existingLines[i]]
  IN  IF isUpdated THEN updatedLines ELSE Append(updatedLines, prefix \o value)

\* The entries the loop of processVariablesForEncryption calls EncryptionService.encrypt for.
needsEncryption(entry) == entry[2] # <<>> /\ ~isAlreadyEncrypted(Trim(entry[2]))

encryptCalls(variablesToEncrypt) ==
  Cardinality({i \in 1..Len(variablesToEncrypt) : needsEncryption(variablesToEncrypt[i])})

\* The loop over Object.entries(variablesToEncrypt).  random[n] is the salt and IV that
\* SecureKeyGenerator returns to the n-th encrypt call; the failAt-th encrypt call rejects
\* (failAt = 0: none does).  calls counts the encrypt calls made so far.
RECURSIVE processEntries(_, _, _, _, _, _, _)
processEntries(entries, updatedLines, encryptedCount, calls, secretKey, random, failAt) ==
  IF entries = <<>>
  THEN [error |-> FALSE, updatedLines |-> updatedLines, encryptedCount |-> encryptedCount]
  ELSE LET key == entries[1][1]
           value == entries[1][2]
       IN
    IF value = <<>>
    THEN processEntries(Tail(entries), updatedLines, encryptedCount, calls,
                        secretKey, random, failAt)
    ELSE IF isAlreadyEncrypted(Trim(value))
    THEN \* encryptIfNeeded returns value.trim(); equal to value, the entry is skipped,
         \* otherwise the string itself is serialized (as a JSON string) into the line.
         IF Trim(value) = value
         THEN processEntries(Tail(entries), updatedLines, encryptedCount, calls,
                             secretKey, random, failAt)
         ELSE processEntries(Tail(entries),
                             updateEnvironmentLines(updatedLines, key,
                                                    <<"\"">> \o Trim(value) \o <<"\"">>),
                             encryptedCount + 1, calls, secretKey, random, failAt)
    ELSE IF calls + 1 = failAt
    THEN [error |-> TRUE, updatedLines |-> updatedLines, encryptedCount |-> encryptedCount]
    ELSE LET encryptedValue == encrypt(Trim(value), secretKey,
                                       random[calls + 1][1], random[calls + 1][2])
         IN  processEntries(Tail(entries),
                            updateEnvironmentLines(updatedLines, key,
                                                   JSONStringify(encryptedValue)),
                            encryptedCount + 1, calls + 1, secretKey, random, failAt)

processVariablesForEncryption(envFileLines, variablesToEncrypt, secretKey, random, failAt) ==
  processEntries(variablesToEncrypt, envFileLines, 0, 0, secretKey, random, failAt)

readEnvFileAsLines(content) == Split(content, NL)

\* The content FileManager.writeFile is given.
writeEnvFileLines(lines) == Join(lines, NL)

(***************************************************************************)
(* EnvironmentFileManager: the secret store (the base .env file).          *)
(* new RegExp(`^${keyName}=`, 'm') over key names made of word characters: *)
(* it matches where a line begins with keyName followed by "=".            *)
(***************************************************************************)
readBaseEnvFile(content) == content

keyExists(content, keyName) ==
  LET lines == Split(content, NL) IN
  \E i \in 1..Len(lines) : StartsWith(lines[i], keyName \o <<"=">>)

Undefined == <<"undefined">>

\* getKeyValue whose pattern lacks the ^: the first keyName= anywhere in a line matches.
RECURSIVE FindFrom(_, _, _)
FindFrom(s, p, i) ==
  IF i + Len(p) - 1 > Len(s) THEN 0
  ELSE IF SubSeq(s, i, i + Len(p) - 1) = p THEN i ELSE FindFrom(s, p, i + 1)

getKeyValueUnanchored(content, keyName) ==
  LET prefix == keyName \o <<"=">>
      at == FindFrom(content, prefix, 1)
  IN  IF at = 0 THEN Undefined
      ELSE Split(SubSeq(content, at + Len(prefix), Len(content)), NL)[1]

\* match[1] of the first match of ^keyName=(.*)$ with the m flag, or undefined.
getKeyValue(content, keyName) ==
  LET lines == Split(readBaseEnvFile(content), NL)
      prefix == keyName \o <<"=">>
  IN  IF \E i \in 1..Len(lines) : StartsWith(lines[i], prefix)
      THEN LET i == CHOOSE i \in 1..Len(lines) :
                      /\ StartsWith(lines[i], prefix)
                      /\ \A j \in 1..(i - 1) : ~StartsWith(lines[j], prefix)
           IN  SubSeq(lines[i], Len(prefix) + 1, Len(lines[i]))
      ELSE Undefined

\* storeBaseEnvKey without the test for an existing key.
storeBaseEnvKeyAlways(content, keyName, keyValue) ==
  readBaseEnvFile(content) \o <<NL>> \o keyName \o <<"=">> \o keyValue

\* The content of the base .env file after the call.
storeBaseEnvKey(content, keyName, keyValue) ==
  LET envFilePaths == readBaseEnvFile(content) IN
  IF keyExists(envFilePaths, keyName) THEN content
  ELSE envFilePaths \o <<NL>> \o keyName \o <<"=">> \o keyValue

(***************************************************************************)
(* State.                                                                  *)
(***************************************************************************)
VARIABLES
  envFileExists,      \* the environment file (envs/.env.<stage>) is there
  envFile,            \* its content
  secretKeyVariable,  \* EnvironmentFileManager.secretKeyVariable
  rewrite,            \* the last encryptEnvironmentVariables call: arguments and outcome
  baseEnvFile,        \* the content of the base .env file (the secret store)
  store,              \* the last call on the secret store: arguments and the content before
  cipher,             \* EncryptionService.encrypt calls followed by a decrypt call
  batch,              \* an EncryptionService.decryptMultipleKeys call and its promises
  keygen,             \* the last SecureKeyGenerator call: arguments and outcome
  probe,              \* an isAlreadyEncrypted or decrypt call: argument and outcome
  auth,               \* the auth state file, AuthStorageManager.hasBeenReset and the last call
  loader,             \* EnvironmentConfigLoader: initialized, loadedFiles and the last call
  writers             \* storeBaseEnvKey calls whose writes may be in flight together

vars == <<envFileExists, envFile, secretKeyVariable, rewrite, baseEnvFile, store, cipher,
          batch, keygen, probe, auth, loader, writers>>

MaxLines == 2
MaxValueLen == 2
MaxStoreLines == 2

RECURSIVE SeqsUpTo(_, _)
SeqsUpTo(S, n) ==
  IF n = 0 THEN {<<>>}
  ELSE LET shorter == SeqsUpTo(S, n - 1) IN
       shorter \cup {Append(s, x) : s \in {t \in shorter : Len(t) = n - 1}, x \in S}

\* The lines an environment file is made of at the start.
EnvLines ==
  { <<"A", "=", "x">>,           \* KEY=VALUE
    <<" ", "A", "=", "y">>,      \* an indented entry of the same key
    <<"A", "B", "=", "x">>,      \* a key that begins with another key, the same value
    <<"B", " ", "=", "A">>,      \* a space before "=", a value that is also a key
    <<"A", "=">>,                \* no value
    <<"1", "=", "x">>,           \* a key that is a number
    <<"#">> }                    \* a comment

NoVariables == [given |-> FALSE, list |-> <<>>]

\* The envVariables arguments: none, an empty array, a key, a value and a miss.
EnvVariableArgs ==
  { NoVariables,
    [given |-> TRUE, list |-> <<>>],
    [given |-> TRUE, list |-> << <<"A">> >>],
    [given |-> TRUE, list |-> << <<"q">>, <<"x">> >>] }

\* The salt and IV pairs the generator returns inside a rewrite.
RewriteRandom == {<<"s1", "i1">>, <<"s2", "i2">>}

\* The passphrase the rewrite is run with.
RewriteSecrets == {<<"k1">>}

NoRewrite == [op |-> "none", before |-> <<>>, envVariables |-> NoVariables,
              secretKey |-> <<>>, failAt |-> 0, encryptedCount |-> 0, error |-> "none",
              warnings |-> <<>>, read |-> FALSE]

\* Key names, generated base64 keys and the lines the secret store holds at the start.
KeyNames == {<<"A">>, <<"B", "A">>}
KeyValues == {<<"x", "=">>, <<"y">>}
StoreLines == { <<"A", "=", "x", "=">>, <<"B", "A", "=", "y">>, <<" ", "A", "=", "y">> }

\* The plaintexts of the encrypt calls.
PlainUnits == {"x", "=", BOM, HS}

NoStore == [op |-> "none", keyName |-> <<>>, keyValue |-> <<>>, before |-> <<>>]

\* calls: the salt, IV and result of every encrypt call made with value and secretKey;
\* tampered: the member of encryptedData that was changed after the last call.
NoCipher == [pc |-> "idle", value |-> <<>>, secretKey |-> <<>>, calls |-> <<>>,
             encryptedData |-> <<>>, tampered |-> "none",
             decryptKey |-> <<>>, result |-> Failed]

\* The number of encrypt calls made with the same value and secret.
MaxCalls == 2

\* settled[i]: the promise of decrypt(encryptedDataArray[i]); completion: the order in
\* which the promises settled; error: the input whose rejection rejected the call.
NoBatch == [pc |-> "idle", encryptedDataArray |-> <<>>, secretKey |-> <<>>,
            settled |-> <<>>, values |-> <<>>, completion |-> <<>>,
            result |-> <<>>, error |-> 0]

NoKeygen == [op |-> "none", length |-> 0, result |-> "none", bytes |-> 0]

MaxAuthCalls == 3
MsPerMinute == 60000

\* No call yet.  arg is the resetFile / resetIfExists argument, reset what the
\* initializeEmptyAuthStateFile call made inside returned ("none": not made), write whether
\* the call issued the write of the empty state, nth the number of the call among those
\* that ask for a reset.
NoCall == [op |-> "none", arg |-> FALSE, returned |-> "none", reset |-> "none",
           write |-> FALSE, nth |-> 0]

NoCheck == [expiryMinutes |-> 0, exists |-> FALSE, ageMs |-> 0, failed |-> FALSE,
            result |-> FALSE]

\* file is the content of the auth state file: "missing", "empty" ({}) or "session".
\* pending holds the writes of the empty state that were issued and have not settled.
NoAuth == [file |-> "missing", hasBeenReset |-> FALSE, pending |-> <<>>, issued |-> 0,
           calls |-> 0, resets |-> 0, last |-> NoCall, check |-> NoCheck,
           globalSetup |-> "idle", overwritten |-> "none",
           failure |-> [by |-> "none", returned |-> "none", hasBeenReset |-> FALSE]]

MaxLoaderCalls == 3

\* last is the last call: the loader state before it, whether it ran the steps of the
\* initialization, the files it loaded and the step that threw ("none": it resolved).
NoLoader == [initialized |-> FALSE, loadedFiles |-> <<>>, calls |-> 0,
             last |-> [op |-> "none", initialized |-> FALSE, loadedFiles |-> <<>>,
                       ran |-> FALSE, loaded |-> <<>>, error |-> "none"]]

MaxWriters == 2

\* calls: the storeBaseEnvKey calls made, each with the content it hands to writeFile, its
\* position ("writing", "done", "skipped": the key was there, "failed") and whether it
\* was started or settled while another call was writing; lost: a value that getKeyValue
\* returned was replaced or removed by a write.
NoWriters == [calls |-> <<>>, lost |-> FALSE]

NoProbe == [pc |-> "idle", value |-> <<>>, result |-> FALSE,
            decrypted |-> Failed, stage |-> "none"]

(***************************************************************************)
(* EnvironmentEncryptionManager.encryptEnvironmentVariables: the call of   *)
(* initializeEncryption followed by encryptEnvVariables.                   *)
(***************************************************************************)
\* getSecretKey that accepts every string.
getSecretKeyAny(secretKey) == TRUE

\* getSecretKey: the empty string is rejected (FALSE: logAndThrow).
getSecretKey(secretKey) == ~(logAndThrow /\ secretKey = <<>>)

\* encryptEnvVariables that writes the lines updated so far when an encryption fails.
encryptEnvVariablesPartialWrite(exists, content, envVariables, secretKey, random, failAt) ==
  IF ~exists
  THEN [error |-> "read", content |-> content, encryptedCount |-> 0, warnings |-> <<>>]
  ELSE LET envFileLines == readEnvFileAsLines(content)
           allEnvVariables == extractEnvironmentVariables(envFileLines)
           variablesToEncrypt == determineVariablesToEncrypt(allEnvVariables, envVariables)
           processed == processVariablesForEncryption(envFileLines, variablesToEncrypt,
                                                      secretKey, random, failAt)
       IN  IF writeEnvFileLines(processed.updatedLines) = <<>>
           THEN [error |-> "write", content |-> content, encryptedCount |-> 0,
                 warnings |-> lookupWarnings(allEnvVariables, envVariables)]
           ELSE [error |-> IF processed.error THEN "encrypt" ELSE "none",
                 content |-> writeEnvFileLines(processed.updatedLines),
                 encryptedCount |-> processed.encryptedCount,
                 warnings |-> lookupWarnings(allEnvVariables, envVariables)]

\* The outcome of encryptEnvVariables on the file: the error (if any), the content
\* of the file afterwards and the count handed to logEncryptionSuccess.
encryptEnvVariables(exists, content, envVariables, secretKey, random, failAt) ==
  IF ~exists
  THEN [error |-> "read", content |-> content, encryptedCount |-> 0, warnings |-> <<>>]
  ELSE LET envFileLines == readEnvFileAsLines(content)
           allEnvVariables == extractEnvironmentVariables(envFileLines)
           variablesToEncrypt == determineVariablesToEncrypt(allEnvVariables, envVariables)
           processed == processVariablesForEncryption(envFileLines, variablesToEncrypt,
                                                      secretKey, random, failAt)
       IN  IF processed.error
           THEN [error |-> "encrypt", content |-> content, encryptedCount |-> 0,
                 warnings |-> lookupWarnings(allEnvVariables, envVariables)]
           ELSE IF writeEnvFileLines(processed.updatedLines) = <<>>
           THEN \* FileManager.writeFile throws on empty content
                [error |-> "write", content |-> content, encryptedCount |-> 0,
                 warnings |-> lookupWarnings(allEnvVariables, envVariables)]
           ELSE [error |-> "none", content |-> writeEnvFileLines(processed.updatedLines),
                 encryptedCount |-> processed.encryptedCount,
                 warnings |-> lookupWarnings(allEnvVariables, envVariables)]

\* The entries of the current file that the call encrypts.
targetsOf(content, envVariables) ==
  determineVariablesToEncrypt(extractEnvironmentVariables(readEnvFileAsLines(content)),
                              envVariables)

EncryptEnvironmentVariables(secretKey, envVariables) ==
  /\ IF ~getSecretKey(secretKey)
     THEN /\ rewrite' = [op |-> "encrypt", before |-> envFile,
                         envVariables |-> envVariables, secretKey |-> secretKey,
                         failAt |-> 0, encryptedCount |-> 0, error |-> "secret",
                         warnings |-> <<>>, read |-> FALSE]
          /\ UNCHANGED <<envFile, secretKeyVariable>>
     ELSE LET calls == IF envFileExists THEN encryptCalls(targetsOf(envFile, envVariables))
                       ELSE 0
          IN
          \E failAt \in 0..calls :
          \E random \in [1..(IF failAt = 0 THEN calls ELSE failAt - 1) -> RewriteRandom] :
            LET done == encryptEnvVariables(envFileExists, envFile, envVariables,
                                            secretKey, random, failAt)
            IN  /\ secretKeyVariable' = secretKey
                /\ envFile' = done.content
                /\ rewrite' = [op |-> "encrypt", before |-> envFile,
                               envVariables |-> envVariables, secretKey |-> secretKey,
                               failAt |-> failAt,
                               encryptedCount |-> done.encryptedCount, error |-> done.error,
                               warnings |-> done.warnings, read |-> TRUE]
  /\ UNCHANGED <<envFileExists, baseEnvFile, store, cipher, batch, keygen, probe, auth, loader, writers>>

InitRewrite ==
  /\ \/ envFileExists = FALSE /\ envFile = <<>>
     \/ /\ envFileExists = TRUE
        /\ \E lines \in SeqsUpTo(EnvLines, MaxLines) : envFile = Join(lines, NL)
  /\ secretKeyVariable = <<>>
  /\ rewrite = NoRewrite
  /\ baseEnvFile = <<>>
  /\ store = NoStore
  /\ cipher = NoCipher
  /\ batch = NoBatch
  /\ keygen = NoKeygen
  /\ probe = NoProbe
  /\ auth = NoAuth
  /\ loader = NoLoader
  /\ writers = NoWriters

NextRewrite ==
  \E secretKey \in RewriteSecrets \cup {<<>>}, envVariables \in EnvVariableArgs :
    EncryptEnvironmentVariables(secretKey, envVariables)

SpecRewrite == InitRewrite /\ [][NextRewrite]_vars

(***************************************************************************)
(* The secret store: createAndSaveSecretKey and storeBaseEnvKey.           *)
(***************************************************************************)
StoreBaseEnvKey(keyName, keyValue) ==
  /\ baseEnvFile' = storeBaseEnvKey(baseEnvFile, keyName, keyValue)
  /\ store' = [op |-> "storeBaseEnvKey", keyName |-> keyName, keyValue |-> keyValue,
               before |-> baseEnvFile]
  /\ UNCHANGED <<envFileExists, envFile, secretKeyVariable, rewrite, cipher, batch, keygen, probe, auth, loader,
          writers>>

\* generateSecretKey returns random base64 text, never undefined or null.
CreateAndSaveSecretKey(keyName) ==
  \E secretKey \in KeyValues :
    /\ baseEnvFile' = storeBaseEnvKey(baseEnvFile, keyName, secretKey)
    /\ store' = [op |-> "createAndSaveSecretKey", keyName |-> keyName,
                 keyValue |-> secretKey, before |-> baseEnvFile]
    /\ UNCHANGED <<envFileExists, envFile, secretKeyVariable, rewrite, cipher, batch, keygen, probe, auth, loader,
          writers>>

InitStore ==
  /\ envFileExists = FALSE
  /\ envFile = <<>>
  /\ secretKeyVariable = <<>>
  /\ rewrite = NoRewrite
  /\ \E lines \in SeqsUpTo(StoreLines, MaxStoreLines) : baseEnvFile = Join(lines, NL)
  /\ store = NoStore
  /\ cipher = NoCipher
  /\ batch = NoBatch
  /\ keygen = NoKeygen
  /\ probe = NoProbe
  /\ auth = NoAuth
  /\ loader = NoLoader
  /\ writers = NoWriters

NextStore ==
  \E keyName \in KeyNames :
    \/ \E keyValue \in KeyValues : StoreBaseEnvKey(keyName, keyValue)
    \/ CreateAndSaveSecretKey(keyName)

SpecStore == InitStore /\ [][NextStore]_vars

(***************************************************************************)
(* EncryptionService: one encrypt call and a decrypt call of its result.   *)
(***************************************************************************)
Encrypt ==
  /\ cipher.pc \in {"start", "encrypted"}
  /\ Len(cipher.calls) < MaxCalls
  /\ \E salt \in Salts, webCryptoIv \in IVs :
       LET encryptedData ==
             JSONStringify(encrypt(cipher.value, cipher.secretKey, salt, webCryptoIv))
       IN  cipher' = [cipher EXCEPT
                        !.pc = "encrypted",
                        !.calls = Append(@, [salt |-> salt, iv |-> webCryptoIv,
                                             encryptedData |-> encryptedData]),
                        !.encryptedData = encryptedData]
  /\ UNCHANGED <<envFileExists, envFile, secretKeyVariable, rewrite, baseEnvFile, store,
               batch, keygen, probe, auth, loader, writers>>

\* The member of the serialized object that position i lies in ("none": a brace or a name).
RECURSIVE MemberAt(_, _)
MemberAt(text, i) ==
  IF i < 1 \/ i > Len(text) \/ text[i] \in {"{", "}"} \/ text[i] \in Markers THEN "none"
  ELSE IF i > 1 /\ text[i - 1] \in Markers
  THEN CASE text[i - 1] = "salt:" -> "salt"
         [] text[i - 1] = "iv:" -> "iv"
         [] OTHER -> "cipherText"
  ELSE MemberAt(text, i - 1)

\* The characters one character of the stored text can be changed into.
ChangedChars(t) ==
  IF t \in UnusedBits THEN UnusedBits \ {t}
  ELSE IF t = "=" THEN {IllegalChar, "~x"}
  ELSE IF t \in Salts THEN Salts \ {t}
  ELSE IF t \in IVs THEN IVs \ {t}
  ELSE IF t \in {"~" \o c : c \in CodeUnits} THEN {IF t = "~x" THEN "~y" ELSE "~x", IllegalChar}
  ELSE {"tag?"}

\* The stored text reaches decrypt with one character of a member changed (the text of
\* a value that was encrypted once: the later calls change nothing for decrypt).
Tamper ==
  /\ cipher.pc = "encrypted"
  /\ Len(cipher.calls) = 1
  /\ \E i \in 1..Len(cipher.encryptedData) :
       /\ MemberAt(cipher.encryptedData, i) # "none"
       /\ \E c \in ChangedChars(cipher.encryptedData[i]) :
            cipher' = [cipher EXCEPT
                         !.pc = "tampered",
                         !.tampered = MemberAt(cipher.encryptedData, i),
                         !.encryptedData = [@ EXCEPT ![i] = c]]
  /\ UNCHANGED <<envFileExists, envFile, secretKeyVariable, rewrite, baseEnvFile, store,
               batch, keygen, probe, auth, loader, writers>>

Decrypt(secretKey) ==
  /\ cipher.pc \in {"encrypted", "tampered"}
  /\ cipher' = [cipher EXCEPT !.pc = "decrypted", !.decryptKey = secretKey,
                              !.result = decrypt(cipher.encryptedData, secretKey)]
  /\ UNCHANGED <<envFileExists, envFile, secretKeyVariable, rewrite, baseEnvFile, store,
               batch, keygen, probe, auth, loader, writers>>

InitCipher ==
  /\ envFileExists = FALSE
  /\ envFile = <<>>
  /\ secretKeyVariable = <<>>
  /\ rewrite = NoRewrite
  /\ baseEnvFile = <<>>
  /\ store = NoStore
  /\ \E value \in SeqsUpTo(PlainUnits, MaxValueLen), secretKey \in Secrets :
       cipher = [NoCipher EXCEPT !.pc = "start", !.value = value, !.secretKey = secretKey]
  /\ batch = NoBatch
  /\ keygen = NoKeygen
  /\ probe = NoProbe
  /\ auth = NoAuth
  /\ loader = NoLoader
  /\ writers = NoWriters

NextCipher ==
  \/ Encrypt
  \/ Tamper
  \/ \E secretKey \in Secrets : Decrypt(secretKey)

SpecCipher == InitCipher /\ [][NextCipher]_vars

(***************************************************************************)
(* EncryptionService.decryptMultipleKeys: Promise.all over one decrypt     *)
(* call per input.  The decrypt calls run concurrently and settle in any   *)
(* order.                                                                  *)
(***************************************************************************)
MaxBatch == 3

\* Stored texts given to decryptMultipleKeys: two values encrypted under k1, one
\* encrypted under k2 and one that is not JSON.
BatchInputs ==
  { JSONStringify(encrypt(<<"x">>, <<"k1">>, "s1", "i1")),
    JSONStringify(encrypt(<<"y", "=">>, <<"k1">>, "s2", "i2")),
    JSONStringify(encrypt(<<"x">>, <<"k2">>, "s1", "i2")),
    <<"{">> }

\* Promise.all resolving with the values in the order in which the promises settled.
promiseAllInCompletionOrder(pc, settled, values, completion, error) ==
  IF pc # "running" THEN [pc |-> pc, result |-> <<>>, error |-> error]
  ELSE IF \E i \in 1..Len(settled) : settled[i] = "rejected"
  THEN [pc |-> "rejected", result |-> <<>>,
        error |-> CHOOSE i \in 1..Len(settled) : settled[i] = "rejected"]
  ELSE IF \A i \in 1..Len(settled) : settled[i] = "fulfilled"
  THEN [pc |-> "resolved", result |-> [n \in 1..Len(completion) |-> values[completion[n]]],
        error |-> 0]
  ELSE [pc |-> pc, result |-> <<>>, error |-> error]

\* The variant that waits for every promise and resolves with the fulfilled values.
promiseAllSkippingRejected(pc, settled, values, completion, error) ==
  IF pc # "running" THEN [pc |-> pc, result |-> <<>>, error |-> error]
  ELSE IF \A i \in 1..Len(settled) : settled[i] # "pending"
  THEN [pc |-> "resolved",
        result |-> SelectSeq(values, LAMBDA v : v # <<"(rejected)">>), error |-> 0]
  ELSE [pc |-> pc, result |-> <<>>, error |-> error]

\* Promise.all after one more promise settled.  While the call is pending: the first
\* rejection rejects it with that reason; once every promise is fulfilled it resolves
\* with the values in the order of the inputs.  A settled call stays as it is.
promiseAll(pc, settled, values, completion, error) ==
  IF pc # "running" THEN [pc |-> pc, result |-> <<>>, error |-> error]
  ELSE IF \E i \in 1..Len(settled) : settled[i] = "rejected"
  THEN [pc |-> "rejected", result |-> <<>>,
        error |-> CHOOSE i \in 1..Len(settled) : settled[i] = "rejected"]
  ELSE IF \A i \in 1..Len(settled) : settled[i] = "fulfilled"
  THEN [pc |-> "resolved", result |-> values, error |-> 0]
  ELSE [pc |-> pc, result |-> <<>>, error |-> error]

DecryptMultipleKeys(encryptedDataArray, secretKey) ==
  /\ batch.pc = "idle"
  /\ LET settled == [i \in 1..Len(encryptedDataArray) |-> "pending"]
         values == [i \in 1..Len(encryptedDataArray) |-> <<"(pending)">>]
         all == promiseAll("running", settled, values, <<>>, 0)
     IN  batch' = [pc |-> all.pc, encryptedDataArray |-> encryptedDataArray,
                   secretKey |-> secretKey, settled |-> settled, values |-> values,
                   completion |-> <<>>, result |-> all.result, error |-> all.error]
  /\ UNCHANGED <<envFileExists, envFile, secretKeyVariable, rewrite, baseEnvFile, store,
                 cipher, keygen, probe, auth, loader, writers>>

\* The decrypt call of input i settles.
DecryptSettles(i) ==
  /\ batch.pc \in {"running", "rejected"}
  /\ i \in 1..Len(batch.settled)
  /\ batch.settled[i] = "pending"
  /\ LET decrypted == decrypt(batch.encryptedDataArray[i], batch.secretKey)
         settled == [batch.settled EXCEPT
                       ![i] = IF decrypted.ok THEN "fulfilled" ELSE "rejected"]
         values == [batch.values EXCEPT
                      ![i] = IF decrypted.ok THEN decrypted.value ELSE <<"(rejected)">>]
         completion == Append(batch.completion, i)
         all == promiseAll(batch.pc, settled, values, completion, batch.error)
     IN  batch' = [batch EXCEPT !.pc = all.pc, !.settled = settled, !.values = values,
                                !.completion = completion,
                                !.result = IF batch.pc = "running" THEN all.result ELSE @,
                                !.error = all.error]
  /\ UNCHANGED <<envFileExists, envFile, secretKeyVariable, rewrite, baseEnvFile, store,
                 cipher, keygen, probe, auth, loader, writers>>

InitBatch ==
  /\ envFileExists = FALSE
  /\ envFile = <<>>
  /\ secretKeyVariable = <<>>
  /\ rewrite = NoRewrite
  /\ baseEnvFile = <<>>
  /\ store = NoStore
  /\ cipher = NoCipher
  /\ batch = NoBatch
  /\ keygen = NoKeygen
  /\ probe = NoProbe
  /\ auth = NoAuth
  /\ loader = NoLoader
  /\ writers = NoWriters

NextBatch ==
  \/ \E encryptedDataArray \in SeqsUpTo(BatchInputs, MaxBatch) :
       DecryptMultipleKeys(encryptedDataArray, <<"k1">>)
  \/ \E i \in 1..MaxBatch : DecryptSettles(i)

SpecBatch == InitBatch /\ [][NextBatch]_vars

(***************************************************************************)
(* SecureKeyGenerator.  A result is the outcome ("value" or "error") and   *)
(* the number of random bytes of the value.                                *)
(***************************************************************************)
MaxLength == 12

Lengths == (0 - MaxLength)..MaxLength

Thrown == [result |-> "error", bytes |-> 0]

\* crypto.randomBytes(size), crypto.getRandomValues(new Uint8Array(size)): a RangeError
\* for a negative size, otherwise size bytes (none for size 0).
randomBytes(size) == IF size < 0 THEN Thrown ELSE [result |-> "value", bytes |-> size]

generateBase64IV(length) == IF length <= 0 THEN Thrown ELSE randomBytes(length)

generateBufferIV(length) == IF length <= 0 THEN Thrown ELSE randomBytes(length)

generateWebCryptoIV(length) == IF length <= 0 THEN Thrown ELSE randomBytes(length)

generateBase64Salt(length) == IF length <= 0 THEN Thrown ELSE randomBytes(length)

\* No test of the length: the outcome is that of crypto.randomBytes.
generateBase64SecretKey(length) == randomBytes(length)

Generated(op, length, outcome) ==
  /\ keygen' = [op |-> op, length |-> length,
                result |-> outcome.result, bytes |-> outcome.bytes]
  /\ UNCHANGED <<envFileExists, envFile, secretKeyVariable, rewrite, baseEnvFile, store,
                 cipher, batch, probe, auth, loader, writers>>

GenerateBase64IV(length) ==
  Generated("generateBase64IV", length, generateBase64IV(length))

GenerateBufferIV(length) ==
  Generated("generateBufferIV", length, generateBufferIV(length))

GenerateWebCryptoIV(length) ==
  Generated("generateWebCryptoIV", length, generateWebCryptoIV(length))

GenerateBase64Salt(length) ==
  Generated("generateBase64Salt", length, generateBase64Salt(length))

GenerateBase64SecretKey(length) ==
  Generated("generateBase64SecretKey", length, generateBase64SecretKey(length))

InitKeygen == InitBatch

NextKeygen ==
  \E length \in Lengths :
    \/ GenerateBase64IV(length)
    \/ GenerateBufferIV(length)
    \/ GenerateWebCryptoIV(length)
    \/ GenerateBase64Salt(length)
    \/ GenerateBase64SecretKey(length)

SpecKeygen == InitKeygen /\ [][NextKeygen]_vars

(***************************************************************************)
(* isAlreadyEncrypted applied to a value.                                  *)
(***************************************************************************)
\* What a member of the object text can be: absent, empty or with a value.
MemberTexts(marker) == {<<>>, <<marker>>, <<marker, "s1">>}

\* The values: around the object text, nothing, white space or U+FEFF; the braces
\* there or not; white space or other text before the first member; every choice of
\* members.
ProbeValues ==
  { pre \o open \o lead \o salt \o iv \o cipherText \o close \o post :
      pre \in {<<>>, <<" ">>, <<BOM>>}, open \in {<<>>, <<"{">>},
      lead \in {<<>>, <<" ">>, <<"x">>},
      salt \in MemberTexts("salt:"), iv \in MemberTexts("iv:"),
      cipherText \in MemberTexts("cipherText:"),
      close \in {<<>>, <<"}">>}, post \in {<<>>, <<NL>>, <<BOM>>} }

IsAlreadyEncrypted ==
  /\ probe.pc = "start"
  /\ probe' = [probe EXCEPT !.pc = "done", !.result = isAlreadyEncrypted(probe.value)]
  /\ UNCHANGED <<envFileExists, envFile, secretKeyVariable, rewrite, baseEnvFile, store,
                 cipher, batch, keygen, auth, loader, writers>>

\* EncryptionService.decrypt applied to the value.
DecryptValue(secretKey) ==
  /\ probe.pc = "start"
  /\ probe' = [probe EXCEPT !.pc = "decrypted",
                            !.decrypted = decrypt(probe.value, secretKey),
                            !.stage = decryptStage(probe.value, secretKey)]
  /\ UNCHANGED <<envFileExists, envFile, secretKeyVariable, rewrite, baseEnvFile, store,
                 cipher, batch, keygen, auth, loader, writers>>

InitProbe ==
  /\ envFileExists = FALSE
  /\ envFile = <<>>
  /\ secretKeyVariable = <<>>
  /\ rewrite = NoRewrite
  /\ baseEnvFile = <<>>
  /\ store = NoStore
  /\ cipher = NoCipher
  /\ batch = NoBatch
  /\ keygen = NoKeygen
  /\ \E value \in ProbeValues \cup BatchInputs :
       probe = [NoProbe EXCEPT !.pc = "start", !.value = value]
  /\ auth = NoAuth
  /\ loader = NoLoader
  /\ writers = NoWriters

NextProbe ==
  \/ IsAlreadyEncrypted
  \/ DecryptValue(<<"k1">>)

SpecProbe == InitProbe /\ [][NextProbe]_vars

(***************************************************************************)
(* AuthStorageManager, BrowserSessionManager and globalSetup.  A result    *)
(* of a call is what it returned ("true", "false", "path", "thrown"), what *)
(* the initializeEmptyAuthStateFile call inside returned, the value of     *)
(* hasBeenReset after it and whether it issued the write.                  *)
(***************************************************************************)
\* ErrorHandler.captureError records the error and returns (TRUE: it throws).
captureError == FALSE

\* TRUE: it throws.  The error of mkdirSync is caught and handed to captureError.
ensureDirectoryExistsSync(mkdirFails) == mkdirFails /\ captureError

\* TRUE: it throws (what ensureDirectoryExistsSync throws, thrown again).
createAuthDirectoryIfNeeded(mkdirFails) == ensureDirectoryExistsSync(mkdirFails)

\* initializeEmptyAuthStateFile that writes whatever hasBeenReset is.
initializeEmptyAuthStateFileAlways(hasBeenReset, mkdirFails) ==
  [returned |-> "true", reset |-> "true", hasBeenReset |-> TRUE, write |-> TRUE]

\* FileManager.writeFile is async: it returns a promise, which the call does not await,
\* and whatever fails in it rejects that promise, so the catch block is entered only by
\* what createAuthDirectoryIfNeeded throws.
initializeEmptyAuthStateFile(hasBeenReset, mkdirFails) ==
  IF hasBeenReset
    THEN [returned |-> "true", reset |-> "true", hasBeenReset |-> TRUE, write |-> FALSE]
    ELSE IF createAuthDirectoryIfNeeded(mkdirFails)
           THEN [returned |-> "false", reset |-> "false", hasBeenReset |-> FALSE,
                 write |-> FALSE]
           ELSE [returned |-> "true", reset |-> "true", hasBeenReset |-> TRUE,
                 write |-> TRUE]

resolveAuthStateFilePath(resetFile, hasBeenReset, mkdirFails) ==
  IF createAuthDirectoryIfNeeded(mkdirFails)
    THEN [returned |-> "thrown", reset |-> "none", hasBeenReset |-> hasBeenReset,
          write |-> FALSE]
    ELSE IF resetFile
           THEN [initializeEmptyAuthStateFile(hasBeenReset, mkdirFails)
                   EXCEPT !.returned = "path"]
           ELSE [returned |-> "path", reset |-> "none", hasBeenReset |-> hasBeenReset,
                 write |-> FALSE]

\* exists: what doesFileExistSync finds when it is called.
doesAuthStateFileExist(resetIfExists, hasBeenReset, mkdirFails, exists) ==
  LET resolved == resolveAuthStateFilePath(resetIfExists, hasBeenReset, mkdirFails)
  IN  [resolved EXCEPT !.returned = IF resolved.returned # "thrown" /\ exists
                                      THEN "true" ELSE "false"]

clearSessionState(hasBeenReset, mkdirFails) ==
  initializeEmptyAuthStateFile(hasBeenReset, mkdirFails)

\* -1 stands for "no file"; ageMs is Date.now() - stats.mtime.getTime().
getAuthStateAgeInMinutes(hasBeenReset, mkdirFails, exists, ageMs, statFails) ==
  IF resolveAuthStateFilePath(FALSE, hasBeenReset, mkdirFails).returned = "thrown" THEN -1
  ELSE IF ~exists THEN -1
  ELSE IF statFails THEN -1
  ELSE ageMs \div MsPerMinute

isAuthStateExpired(expiryMinutes, hasBeenReset, mkdirFails, exists, ageMs, statFails) ==
  LET ageMinutes ==
        getAuthStateAgeInMinutes(hasBeenReset, mkdirFails, exists, ageMs, statFails)
  IN  ageMinutes = -1 \/ ageMinutes > expiryMinutes

isSessionValid(expiryMinutes, hasBeenReset, mkdirFails, exists, ageMs, statFails) ==
  IF doesAuthStateFileExist(FALSE, hasBeenReset, mkdirFails, exists).returned # "true"
    THEN FALSE
    ELSE ~isAuthStateExpired(expiryMinutes, hasBeenReset, mkdirFails, exists, ageMs,
                             statFails)

Ages == {0, 1, MsPerMinute - 1, MsPerMinute, MsPerMinute + 1, 2 * MsPerMinute - 1,
         2 * MsPerMinute, 2 * MsPerMinute + 1}

ExpiryMinutes == {0, 1, 2}

ResetOps == {"initializeEmptyAuthStateFile", "resolveAuthStateFilePath",
             "doesAuthStateFileExist", "clearSessionState", "globalSetup"}

\* The effect of a call with result r: the flag, and the write it left pending.
Called(op, arg, r) ==
  LET asksReset == op \in ResetOps /\ (arg \/ op \notin {"resolveAuthStateFilePath",
                                                          "doesAuthStateFileExist"})
  IN  [auth EXCEPT !.hasBeenReset = r.hasBeenReset,
                   !.pending = IF r.write
                                 THEN Append(@, [by |-> op, returned |-> r.returned,
                                                 saved |-> FALSE])
                                 ELSE @,
                   !.issued = IF r.write THEN @ + 1 ELSE @,
                   !.calls = @ + 1,
                   !.resets = IF asksReset THEN @ + 1 ELSE @,
                   !.last = [op |-> op, arg |-> arg, returned |-> r.returned,
                             reset |-> r.reset, write |-> r.write,
                             nth |-> IF asksReset THEN auth.resets + 1 ELSE 0]]

OthersUnchanged ==
  UNCHANGED <<envFileExists, envFile, secretKeyVariable, rewrite, baseEnvFile, store,
              cipher, batch, keygen, probe, loader, writers>>

InitializeEmptyAuthStateFile(mkdirFails) ==
  /\ auth.calls < MaxAuthCalls
  /\ auth' = Called("initializeEmptyAuthStateFile", FALSE,
                    initializeEmptyAuthStateFile(auth.hasBeenReset, mkdirFails))
  /\ OthersUnchanged

ResolveAuthStateFilePath(resetFile, mkdirFails) ==
  /\ auth.calls < MaxAuthCalls
  /\ auth' = Called("resolveAuthStateFilePath", resetFile,
                    resolveAuthStateFilePath(resetFile, auth.hasBeenReset, mkdirFails))
  /\ OthersUnchanged

DoesAuthStateFileExist(resetIfExists, mkdirFails) ==
  /\ auth.calls < MaxAuthCalls
  /\ auth' = Called("doesAuthStateFileExist", resetIfExists,
                    doesAuthStateFileExist(resetIfExists, auth.hasBeenReset, mkdirFails,
                                           auth.file # "missing"))
  /\ OthersUnchanged

ClearSessionState(mkdirFails) ==
  /\ auth.calls < MaxAuthCalls
  /\ auth' = Called("clearSessionState", FALSE,
                    clearSessionState(auth.hasBeenReset, mkdirFails))
  /\ OthersUnchanged

\* saveSessionState: page.context().storageState writes the session to the file.  A
\* write of the empty state that is pending then is marked: it lands after the save.
SaveSessionState(mkdirFails, storageStateFails) ==
  LET resolved == resolveAuthStateFilePath(FALSE, auth.hasBeenReset, mkdirFails)
      thrown == resolved.returned = "thrown" \/ storageStateFails
      r == [resolved EXCEPT !.returned = IF thrown THEN "thrown" ELSE "resolved"]
      called == Called("saveSessionState", FALSE, r)
  IN  /\ auth.calls < MaxAuthCalls
      /\ auth' = IF thrown THEN called
                 ELSE [called EXCEPT
                         !.file = "session",
                         !.pending = [i \in 1..Len(@) |-> [@[i] EXCEPT !.saved = TRUE]]]
      /\ OthersUnchanged

\* isSessionValid: ageMs is the age of the file when statSync reads it.
IsSessionValid(expiryMinutes, ageMs, statFails, mkdirFails) ==
  LET exists == auth.file # "missing"
      result == isSessionValid(expiryMinutes, auth.hasBeenReset, mkdirFails, exists, ageMs,
                               statFails)
      r == [returned |-> IF result THEN "true" ELSE "false", reset |-> "none",
            hasBeenReset |-> auth.hasBeenReset, write |-> FALSE]
  IN  /\ auth.calls < MaxAuthCalls
      /\ auth' = [Called("isSessionValid", FALSE, r) EXCEPT
                    !.check = [expiryMinutes |-> expiryMinutes, exists |-> exists,
                               ageMs |-> ageMs,
                               failed |-> statFails
                                          \/ createAuthDirectoryIfNeeded(mkdirFails),
                               result |-> result]]
      /\ OthersUnchanged

\* globalSetup: await initializeEnvironment(), then await resetAuthState(), whose promise
\* is resolved as soon as initializeEmptyAuthStateFile has returned.
GlobalSetup(initializeFails, mkdirFails) ==
  /\ auth.globalSetup = "idle"
  /\ auth.calls < MaxAuthCalls
  /\ auth' = IF initializeFails
               THEN [auth EXCEPT !.globalSetup = "rejected", !.calls = @ + 1]
               ELSE [Called("globalSetup", FALSE,
                            initializeEmptyAuthStateFile(auth.hasBeenReset, mkdirFails))
                       EXCEPT !.globalSetup = "resolved"]
  /\ OthersUnchanged

\* The promise of FileManager.writeFile settles: fs.promises.writeFile has written {} to
\* the file, or the promise is rejected, which nothing handles.
WriteSettles(written) ==
  /\ auth.pending # <<>>
  /\ LET write == Head(auth.pending)
     IN  auth' = [auth EXCEPT
                    !.pending = Tail(@),
                    !.file = IF written THEN "empty" ELSE @,
                    !.overwritten = IF written /\ write.saved /\ auth.file = "session"
                                      THEN write.by ELSE @,
                    !.failure = IF written THEN @
                                ELSE [by |-> write.by, returned |-> write.returned,
                                      hasBeenReset |-> auth.hasBeenReset]]
  /\ OthersUnchanged

InitAuth ==
  /\ envFileExists = FALSE
  /\ envFile = <<>>
  /\ secretKeyVariable = <<>>
  /\ rewrite = NoRewrite
  /\ baseEnvFile = <<>>
  /\ store = NoStore
  /\ cipher = NoCipher
  /\ batch = NoBatch
  /\ keygen = NoKeygen
  /\ probe = NoProbe
  /\ \E file \in {"missing", "empty", "session"} : auth = [NoAuth EXCEPT !.file = file]
  /\ loader = NoLoader
  /\ writers = NoWriters

NextAuth ==
  \/ \E mkdirFails \in BOOLEAN :
       \/ InitializeEmptyAuthStateFile(mkdirFails)
       \/ \E resetFile \in BOOLEAN : ResolveAuthStateFilePath(resetFile, mkdirFails)
       \/ \E resetIfExists \in BOOLEAN : DoesAuthStateFileExist(resetIfExists, mkdirFails)
       \/ ClearSessionState(mkdirFails)
       \/ \E storageStateFails \in BOOLEAN : SaveSessionState(mkdirFails, storageStateFails)
       \/ \E initializeFails \in BOOLEAN : GlobalSetup(initializeFails, mkdirFails)
       \/ \E expiryMinutes \in ExpiryMinutes, ageMs \in Ages, statFails \in BOOLEAN :
            IsSessionValid(expiryMinutes, ageMs, statFails, mkdirFails)
  \/ \E written \in BOOLEAN : WriteSettles(written)

SpecAuth == InitAuth /\ [][NextAuth]_vars

(***************************************************************************)
(* EnvironmentConfigLoader.  What a call finds outside the loader is its   *)
(* input e: ci (isRunningInCI), base (the base .env file: "loaded",        *)
(* "fails" in dotenv, "missing", or "required" and missing), env (ENV is   *)
(* "dev" or "invalid"), file (the file of the environment: "loaded",       *)
(* "fails", "missing") and required (REQUIRED_ENV_VARS are "present" or    *)
(* "missing").                                                             *)
(***************************************************************************)
Environments ==
  [ci : BOOLEAN, base : {"loaded", "fails", "missing", "required"},
   env : {"dev", "invalid"}, file : {"loaded", "fails", "missing"},
   required : {"present", "missing"}]

\* initialize that does not look at the initialized flag.
initializeAlways(initialized, loadedFiles, e) ==
  [initialized |-> TRUE, loadedFiles |-> Append(loadedFiles, ".env"), ran |-> TRUE,
   loaded |-> <<".env">>, error |-> "none"]

\* The steps in the order of the code; a step that throws ends the call with initialized
\* and the files pushed so far left as they are.
initialize(initialized, loadedFiles, e) ==
  LET base == IF e.base = "loaded" THEN <<".env">> ELSE <<>>
      file == IF e.file = "loaded" THEN <<".env.dev">> ELSE <<>>
      thrown(error, loaded) ==
        [initialized |-> FALSE, loadedFiles |-> loadedFiles \o loaded, ran |-> TRUE,
         loaded |-> loaded, error |-> error]
  IN  IF initialized
        THEN [initialized |-> TRUE, loadedFiles |-> loadedFiles, ran |-> FALSE,
              loaded |-> <<>>, error |-> "none"]
      ELSE IF e.ci
        THEN [initialized |-> TRUE, loadedFiles |-> loadedFiles, ran |-> TRUE,
              loaded |-> <<>>, error |-> "none"]
      ELSE IF e.base \in {"fails", "required"} THEN thrown("handleBaseEnvFile", <<>>)
      ELSE IF e.env = "invalid" THEN thrown("determineEnvironment", base)
      ELSE IF e.file = "fails" THEN thrown("loadEnvironmentSpecificFile", base)
      ELSE IF e.required = "missing"
        THEN thrown("validateRequiredVariables", base \o file)
      ELSE [initialized |-> TRUE, loadedFiles |-> loadedFiles \o base \o file,
            ran |-> TRUE, loaded |-> base \o file, error |-> "none"]

reload(initialized, loadedFiles, e) == initialize(FALSE, <<>>, e)

LoaderCalled(op, r) ==
  /\ loader.calls < MaxLoaderCalls
  /\ loader' = [initialized |-> r.initialized, loadedFiles |-> r.loadedFiles,
                calls |-> loader.calls + 1,
                last |-> [op |-> op, initialized |-> loader.initialized,
                          loadedFiles |-> loader.loadedFiles, ran |-> r.ran,
                          loaded |-> r.loaded, error |-> r.error]]
  /\ UNCHANGED <<envFileExists, envFile, secretKeyVariable, rewrite, baseEnvFile, store,
                 cipher, batch, keygen, probe, auth, writers>>

Initialize(e) ==
  LoaderCalled("initialize", initialize(loader.initialized, loader.loadedFiles, e))

Reload(e) ==
  LoaderCalled("reload", reload(loader.initialized, loader.loadedFiles, e))

InitLoader ==
  /\ envFileExists = FALSE
  /\ envFile = <<>>
  /\ secretKeyVariable = <<>>
  /\ rewrite = NoRewrite
  /\ baseEnvFile = <<>>
  /\ store = NoStore
  /\ cipher = NoCipher
  /\ batch = NoBatch
  /\ keygen = NoKeygen
  /\ probe = NoProbe
  /\ auth = NoAuth
  /\ loader = NoLoader
  /\ writers = NoWriters

NextLoader ==
  \E e \in Environments :
    \/ Initialize(e)
    \/ Reload(e)

SpecLoader == InitLoader /\ [][NextLoader]_vars

(***************************************************************************)
(* storeBaseEnvKey calls started without awaiting the previous one.  The   *)
(* call reads the file and builds the content synchronously; the write is  *)
(* carried out when the promise of FileManager.writeFile settles.          *)
(***************************************************************************)
\* The synchronous part of storeBaseEnvKey, up to the await.
StartStoreBaseEnvKey(keyName, keyValue) ==
  LET writing == \E i \in 1..Len(writers.calls) : writers.calls[i].pc = "writing"
      content == storeBaseEnvKey(baseEnvFile, keyName, keyValue)
      call == [keyName |-> keyName, keyValue |-> keyValue, content |-> content,
               pc |-> IF content = baseEnvFile THEN "skipped" ELSE "writing",
               overlapped |-> writing]
  IN  /\ Len(writers.calls) < MaxWriters
      /\ writers' = [writers EXCEPT
                       !.calls = Append([i \in 1..Len(@) |->
                                           [@[i] EXCEPT !.overlapped =
                                              @ \/ writers.calls[i].pc = "writing"]],
                                        call)]
      /\ UNCHANGED <<envFileExists, envFile, secretKeyVariable, rewrite, baseEnvFile, store,
                     cipher, batch, keygen, probe, auth, loader>>

\* writeKeyToBaseEnvFile of call i settles: the content replaces the file, or the write
\* fails and the call throws.
WriteKeyToBaseEnvFile(i, written) ==
  /\ i \in 1..Len(writers.calls)
  /\ writers.calls[i].pc = "writing"
  /\ baseEnvFile' = IF written THEN writers.calls[i].content ELSE baseEnvFile
  /\ writers' = [writers EXCEPT
                   !.calls[i].pc = IF written THEN "done" ELSE "failed",
                   !.lost = @ \/ \E keyName \in KeyNames :
                                   /\ getKeyValue(baseEnvFile, keyName) # Undefined
                                   /\ getKeyValue(baseEnvFile', keyName)
                                        # getKeyValue(baseEnvFile, keyName)]
  /\ UNCHANGED <<envFileExists, envFile, secretKeyVariable, rewrite, store,
                 cipher, batch, keygen, probe, auth, loader>>

NextWriters ==
  \/ \E keyName \in KeyNames, keyValue \in KeyValues :
       StartStoreBaseEnvKey(keyName, keyValue)
  \/ \E i \in 1..MaxWriters, written \in BOOLEAN : WriteKeyToBaseEnvFile(i, written)

SpecWriters == InitStore /\ [][NextWriters]_vars

\* Every operation of the components.
Init == InitRewrite \/ InitStore \/ InitCipher \/ InitBatch \/ InitProbe \/ InitAuth
          \/ InitLoader

Next ==
  \/ NextRewrite \/ NextStore \/ NextCipher \/ NextBatch \/ NextKeygen \/ NextProbe
  \/ NextAuth \/ NextLoader \/ NextWriters

Spec == Init /\ [][Next]_vars

(***************************************************************************)
(* Properties of the rewrite (checked under SpecRewrite).                  *)
(***************************************************************************)
Rewritten == rewrite.op = "encrypt" /\ rewrite.error = "none"

LinesBefore == Split(rewrite.before, NL)

LinesAfter == Split(envFile, NL)

\* The entries the last call selected.
Targets == targetsOf(rewrite.before, rewrite.envVariables)

NoKey == <<"(none)">>

\* The key of a line: the text before its first "=", trimmed; NoKey without "=".
KeyOfLine(line) ==
  LET trimmedLine == Trim(line) IN
  IF ~Includes(trimmedLine, "=") THEN NoKey ELSE Trim(Split(trimmedLine, "=")[1])

\* A line the last call did not target: no key, or a key that was not selected.
Untargeted(line) == KeyOfLine(line) \notin Keys(Targets)

\* The line is an entry whose value is in encrypted form.
EncryptedEntry(line) ==
  parseEnvironmentLine(line) # <<>> /\ isAlreadyEncrypted(parseEnvironmentLine(line)[2])

\* The line is an entry whose value is plaintext.
PlainEntry(line) ==
  parseEnvironmentLine(line) # <<>> /\ ~isAlreadyEncrypted(parseEnvironmentLine(line)[2])

\* C1: a successful rewrite that directly follows a successful rewrite with the same
\* target set and the same secret leaves the file as it is and counts no new encryption.
C1_IdempotentRewrite ==
  [][(/\ Rewritten
      /\ rewrite'.op = "encrypt" /\ rewrite'.error = "none"
      /\ rewrite'.envVariables = rewrite.envVariables
      /\ rewrite'.secretKey = rewrite.secretKey)
     => (envFile' = envFile /\ rewrite'.encryptedCount = 0)]_vars

\* C2: after a successful rewrite every line whose key was not targeted is where it was,
\* unchanged, so these lines are all present and keep their relative order.
C2_UntargetedLinesPreserved ==
  Rewritten =>
    /\ Len(LinesAfter) >= Len(LinesBefore)
    /\ \A i \in 1..Len(LinesBefore) :
         Untargeted(LinesBefore[i]) => LinesAfter[i] = LinesBefore[i]

\* A rewrite that changed the line of a targeted key and met the line of an entry whose
\* key was not targeted.
C2_Witness ==
  /\ Rewritten /\ rewrite.encryptedCount > 0
  /\ \E i \in 1..Len(LinesBefore) : LinesAfter[i] # LinesBefore[i]
  /\ \E i \in 1..Len(LinesBefore) :
       Untargeted(LinesBefore[i]) /\ PlainEntry(LinesBefore[i])

\* C3: a successful rewrite leaves the number of lines of the file unchanged.
C3_LineCountPreserved ==
  Rewritten => Len(LinesAfter) = Len(LinesBefore)

\* C4: a line whose value is already encrypted is left unchanged by a successful rewrite,
\* and the count of new encryptions is at most the number of plaintext entry lines.
C4_EncryptedLinesUntouched ==
  Rewritten =>
    /\ \A i \in 1..Len(LinesBefore) :
         EncryptedEntry(LinesBefore[i]) => LinesAfter[i] = LinesBefore[i]
    /\ rewrite.encryptedCount
         <= Cardinality({i \in 1..Len(LinesBefore) : PlainEntry(LinesBefore[i])})

\* C6: every entry line KEY=VALUE that a successful rewrite changed reads KEY=<JSON>
\* afterwards, and decrypting that JSON with the secret of the call returns VALUE.
C6_RewriteRoundTrip ==
  Rewritten =>
    \A i \in 1..Len(LinesBefore) :
      LET old == parseEnvironmentLine(LinesBefore[i])
          new == parseEnvironmentLine(LinesAfter[i])
      IN  (old # <<>> /\ LinesAfter[i] # LinesBefore[i]) =>
            /\ new # <<>>
            /\ new[1] = old[1]
            /\ LinesAfter[i] = new[1] \o <<"=">> \o new[2]
            /\ isAlreadyEncrypted(new[2])
            /\ decrypt(new[2], rewrite.secretKey) = [ok |-> TRUE, value |-> old[2]]

\* C7: a call that fails because the file cannot be read or because an encryption
\* fails writes nothing: the file is as it was before the call.
C7_FailFastNoPartialWrite ==
  (rewrite.op = "encrypt" /\ rewrite.error \in {"read", "encrypt"}) =>
     envFile = rewrite.before

\* The second encryption of a call failed, after the first value had been encrypted.
C7_Witness ==
  /\ rewrite.op = "encrypt" /\ rewrite.error = "encrypt" /\ rewrite.failAt = 2
  /\ envFile = rewrite.before

\* The keys an explicit lookup list resolves to: a lookup that is the key of an entry,
\* or else the value of an entry that no earlier entry has.
ResolvedKeys ==
  LET allEnvVariables == extractEnvironmentVariables(LinesBefore)
      lookups == rewrite.envVariables.list
      entries == 1..Len(allEnvVariables)
      byKey(l, i) == allEnvVariables[i][1] = l
      byValue(l, i) == /\ \A j \in entries : ~byKey(l, j)
                       /\ allEnvVariables[i][2] = l
                       /\ \A j \in 1..(i - 1) : allEnvVariables[j][2] # l
  IN  {allEnvVariables[i][1] : i \in
         {i \in entries : \E n \in 1..Len(lookups) :
                            byKey(lookups[n], i) \/ byValue(lookups[n], i)}}

OnlyResolvedLinesChange ==
  \A i \in 1..Len(LinesAfter) :
    /\ (i <= Len(LinesBefore) /\ LinesAfter[i] # LinesBefore[i])
          => KeyOfLine(LinesBefore[i]) \in ResolvedKeys
    /\ i > Len(LinesBefore) => KeyOfLine(LinesAfter[i]) \in ResolvedKeys

\* C10 as stated: with an explicit lookup list of any length, every line that differs
\* after the rewrite (or is new) has a key resolved from one of the lookups.
C10_OnlySelectedLinesChange ==
  (Rewritten /\ rewrite.envVariables.given) => OnlyResolvedLinesChange

\* C10 amended: the same for a lookup list that is not empty.
C10_OnlySelectedLinesChangeNonEmpty ==
  (Rewritten /\ rewrite.envVariables.given /\ Len(rewrite.envVariables.list) > 0)
     => OnlyResolvedLinesChange

\* A rewrite with a non-empty lookup list that changed one entry and left another entry.
C10_Witness ==
  /\ Rewritten /\ rewrite.envVariables.given /\ Len(rewrite.envVariables.list) > 0
  /\ \E i \in 1..Len(LinesBefore) : LinesAfter[i] # LinesBefore[i]
  /\ \E i \in 1..Len(LinesBefore) :
       PlainEntry(LinesBefore[i]) /\ LinesAfter[i] = LinesBefore[i]

\* The call was given a list of lookups that is not empty, and read the file.
Looked ==
  /\ rewrite.op = "encrypt" /\ rewrite.error \notin {"secret", "read"}
  /\ rewrite.envVariables.given /\ Len(rewrite.envVariables.list) > 0

\* The lines of the file that are entries, and the key and value of such a line.
EntryLines == {i \in 1..Len(LinesBefore) : parseEnvironmentLine(LinesBefore[i]) # <<>>}

LineKey(i) == parseEnvironmentLine(LinesBefore[i])[1]

LineValue(i) == parseEnvironmentLine(LinesBefore[i])[2]

\* The value of the entry with this key: that of the last line of the key.
EntryValue(key) ==
  LineValue(CHOOSE i \in EntryLines :
              LineKey(i) = key /\ \A j \in EntryLines : LineKey(j) = key => j <= i)

\* The first line of the entry with this key.
EntryLine(key) ==
  CHOOSE i \in EntryLines : LineKey(i) = key /\ \A j \in EntryLines : LineKey(j) = key => i <= j

EntryKeys == {LineKey(i) : i \in EntryLines}

\* The entries a lookup selects: the entry with that key, or else the first entry in
\* the order of the file with that value; none when there is neither.
Selected(lookup) ==
  IF lookup \in EntryKeys THEN {lookup}
  ELSE {key \in EntryKeys :
          /\ EntryValue(key) = lookup
          /\ \A other \in EntryKeys :
               EntryValue(other) = lookup => EntryLine(key) <= EntryLine(other)}

\* C18: the entries a rewrite targets for a list of lookups are, for each lookup, the
\* entry with that key, or else the first entry in file order with that value.
C18_LookupResolution ==
  Looked =>
    /\ Keys(Targets)
         = UNION {Selected(rewrite.envVariables.list[n]) :
                    n \in 1..Len(rewrite.envVariables.list)}
    /\ \A key \in Keys(Targets) : GetValue(Targets, key) = EntryValue(key)

\* C19: after a rewrite with a list of lookups, every lookup that is neither a key nor
\* a value of an entry has been warned about, and the rewrite has completed.
C19_UnresolvedLookupWarned ==
  (Looked /\ rewrite.failAt = 0 /\ rewrite.before # <<>>) =>
    /\ rewrite.error = "none"
    /\ \A n \in 1..Len(rewrite.envVariables.list) :
         Selected(rewrite.envVariables.list[n]) = {}
           => \E w \in 1..Len(rewrite.warnings) :
                rewrite.warnings[w] = rewrite.envVariables.list[n]

\* C20: a successful rewrite leaves every line that is not an entry as it was.
C20_OpaqueLinesUntouched ==
  Rewritten =>
    \A i \in 1..Len(LinesBefore) :
      parseEnvironmentLine(LinesBefore[i]) = <<>> => LinesAfter[i] = LinesBefore[i]

\* C27: after a successful rewrite without a lookup list, no line of the file is an
\* entry (a line that parses as KEY=VALUE) whose value is plaintext.
C27_EveryEntryEncrypted ==
  (Rewritten /\ rewrite.envVariables.list = <<>>) =>
    \A i \in 1..Len(LinesAfter) : ~PlainEntry(LinesAfter[i])

\* C28: a call with an empty secret ends in initializeEncryption: the file is not read,
\* nothing is encrypted, and the file is as before.
C28_EmptySecretFailsFirst ==
  (rewrite.op = "encrypt" /\ rewrite.secretKey = <<>>) =>
    /\ rewrite.error = "secret"
    /\ ~rewrite.read
    /\ rewrite.encryptedCount = 0
    /\ envFile = rewrite.before

\* The call with the empty secret was made on a file that has a plaintext entry.
C28_Witness ==
  /\ rewrite.op = "encrypt"
  /\ rewrite.secretKey = <<>>
  /\ envFileExists
  /\ \E i \in 1..Len(LinesAfter) : PlainEntry(LinesAfter[i])
  /\ rewrite.envVariables.list = <<>>

(***************************************************************************)
(* Properties of EncryptionService (checked under SpecCipher).             *)
(***************************************************************************)
\* C5: decrypting the serialized result of encrypt(v, s) with s returns v.
C5_RoundTrip ==
  (cipher.pc = "decrypted" /\ cipher.tampered = "none"
     /\ cipher.decryptKey = cipher.secretKey) =>
     cipher.result = [ok |-> TRUE, value |-> cipher.value]

\* C11: decrypting a stored text of which one character of the cipherText or iv member
\* was changed, or whose salt was changed, or decrypting with another secret, fails.
C11_TamperDetected ==
  (cipher.pc = "decrypted"
     /\ (cipher.tampered # "none" \/ cipher.decryptKey # cipher.secretKey)) =>
     ~cipher.result.ok

C17_EncryptedIsRecognised ==
  \A n \in 1..Len(cipher.calls) : isAlreadyEncrypted(cipher.calls[n].encryptedData)

\* Two encrypt calls of a value that is not empty returned different texts.
C17_Witness ==
  /\ Len(cipher.calls) = MaxCalls
  /\ cipher.calls[1].encryptedData # cipher.calls[2].encryptedData
  /\ cipher.value # <<>>

(***************************************************************************)
(* Properties of decryptMultipleKeys (checked under SpecBatch).            *)
(***************************************************************************)
\* C13: when decryptMultipleKeys resolves, element i of its result is the plaintext of
\* input i, in whatever order the decrypt calls completed.
C13_BatchKeepsOrder ==
  batch.pc = "resolved" =>
    /\ Len(batch.result) = Len(batch.encryptedDataArray)
    /\ \A i \in 1..Len(batch.encryptedDataArray) :
         [ok |-> TRUE, value |-> batch.result[i]]
           = decrypt(batch.encryptedDataArray[i], batch.secretKey)

\* The call resolved although the last input was decrypted first, and the inputs have
\* different plaintexts.
C13_Witness ==
  /\ batch.pc = "resolved"
  /\ Len(batch.result) = MaxBatch
  /\ batch.completion[1] = MaxBatch
  /\ batch.result[1] # batch.result[MaxBatch]

\* C14: when the decryption of an input fails the call never resolves and returns no
\* list; it is rejected, at the latest when every decrypt call has settled, with the
\* error of an input whose decryption failed.
C14_BatchAllOrNothing ==
  (batch.pc # "idle"
     /\ \E i \in 1..Len(batch.encryptedDataArray) :
          ~decrypt(batch.encryptedDataArray[i], batch.secretKey).ok) =>
    /\ batch.pc # "resolved"
    /\ batch.result = <<>>
    /\ (\A i \in 1..Len(batch.settled) : batch.settled[i] # "pending")
          => batch.pc = "rejected"
    /\ batch.pc = "rejected" =>
          /\ batch.error \in 1..Len(batch.encryptedDataArray)
          /\ batch.settled[batch.error] = "rejected"
          /\ ~decrypt(batch.encryptedDataArray[batch.error], batch.secretKey).ok

\* The call was rejected after another input had been decrypted, and the remaining
\* decrypt call has completed as well.
C14_Witness ==
  /\ batch.pc = "rejected"
  /\ Len(batch.completion) = MaxBatch
  /\ batch.settled[batch.completion[1]] = "fulfilled"
  /\ batch.settled[batch.completion[MaxBatch]] = "fulfilled"

(***************************************************************************)
(* Properties of SecureKeyGenerator (checked under SpecKeygen).            *)
(***************************************************************************)
\* C15: every helper answers a zero or negative length with an error, and no helper
\* returns an empty value.
C15_LengthChecked ==
  keygen.op # "none" =>
    /\ keygen.length <= 0 => keygen.result = "error"
    /\ keygen.result = "value" => keygen.bytes > 0

(***************************************************************************)
(* Properties of isAlreadyEncrypted (checked under SpecProbe).             *)
(***************************************************************************)
\* C16: isAlreadyEncrypted(value) is true exactly when value is not empty, the trimmed
\* value starts with "{" and ends with "}", value parses as JSON and the parsed object
\* has the keys salt, iv and cipherText, whatever their values; it is false otherwise.
C16_RecognisedExactly ==
  probe.pc = "done" =>
    (probe.result = TRUE) <=>
      /\ probe.value # <<>>
      /\ StartsWith(Trim(probe.value), <<"{">>)
      /\ EndsWith(Trim(probe.value), <<"}">>)
      /\ JSONParse(probe.value).ok
      /\ \A marker \in Markers : Includes(probe.value, marker)

\* A value with white space around it and with empty members, found encrypted.
C16_Witness ==
  /\ probe.pc = "done" /\ probe.result = TRUE
  /\ StartsWith(probe.value, <<" ">>)
  /\ EndsWith(probe.value, <<NL>>)
  /\ ~Includes(probe.value, "s1")

\* C21: decrypt of an empty text, or of an object text in which salt, iv or cipherText
\* is missing or empty, fails in parseEncryptedData, before the key is derived, and
\* returns no value.
C21_ValidatedBeforeDecryption ==
  (probe.pc = "decrypted"
     /\ \/ probe.value = <<>>
        \/ /\ JSONParse(probe.value).ok
           /\ \E marker \in Markers :
                \/ ~Includes(probe.value, marker)
                \/ \E i \in 1..Len(probe.value) :
                     /\ probe.value[i] = marker
                     /\ probe.value[i + 1] \in Markers \cup {"}"}) =>
     /\ ~probe.decrypted.ok
     /\ probe.decrypted.value = <<>>
     /\ probe.stage = "parseEncryptedData"

\* decrypt was given an object text that has the three members, one of them empty.
C21_Witness ==
  /\ probe.pc = "decrypted"
  /\ JSONParse(probe.value).ok
  /\ \A marker \in Markers : Includes(probe.value, marker)
  /\ JSONParse(probe.value).iv = <<>>
  /\ JSONParse(probe.value).salt # <<>>
  /\ probe.stage = "parseEncryptedData"

(***************************************************************************)
(* Properties of the secret store (checked under SpecStore).               *)
(***************************************************************************)
\* The store holds a line that starts with keyName=.
HasLine(content, keyName) ==
  \E i \in 1..Len(Split(content, NL)) :
     StartsWith(Split(content, NL)[i], keyName \o <<"=">>)

\* C8: once the store holds a line starting with keyName=, a call for that key name
\* leaves the file as it is, and no call changes the value read for that key name.
C8_ExistingSecretKept ==
  [][\A keyName \in KeyNames :
       HasLine(baseEnvFile, keyName) =>
         /\ store'.keyName = keyName => baseEnvFile' = baseEnvFile
         /\ getKeyValue(baseEnvFile', keyName) = getKeyValue(baseEnvFile, keyName)]_vars

\* A call for a key name that was there, with a value other than the stored one.
C8_Witness ==
  /\ store.op # "none"
  /\ HasLine(store.before, store.keyName)
  /\ store.keyValue # getKeyValue(store.before, store.keyName)
  /\ baseEnvFile = store.before

\* C9: a call for a key name without a line in the store writes the previous content,
\* a newline and keyName=value, and getKeyValue then returns the value.
C9_AbsentKeyAppended ==
  (store.op # "none" /\ ~HasLine(store.before, store.keyName)) =>
     /\ baseEnvFile = store.before \o <<NL>> \o store.keyName \o <<"=">> \o store.keyValue
     /\ getKeyValue(baseEnvFile, store.keyName) = store.keyValue

\* A key appended to a store that already held other entries.
C9_Witness ==
  /\ store.op # "none" /\ ~HasLine(store.before, store.keyName)
  /\ store.before # <<>>
  /\ baseEnvFile # store.before

C23_ClearedWhenTrue ==
  (auth.last.op = "clearSessionState" /\ auth.last.returned = "true"
     /\ auth.pending = <<>>) =>
    auth.file = "empty"

\* C24: when the write of the empty state has failed, the call that issued it returned
\* false and hasBeenReset is cleared.
C24_FailedWriteReported ==
  auth.failure.by # "none" => auth.failure.returned = "false" /\ ~auth.failure.hasBeenReset

\* C25: isSessionValid returns true exactly when the file exists, no check failed and
\* the file is not older than expiryMinutes minutes.
C25_ValidExactly ==
  auth.last.op = "isSessionValid" =>
    (auth.check.result <=>
       /\ auth.check.exists
       /\ ~auth.check.failed
       /\ auth.check.ageMs <= auth.check.expiryMinutes * MsPerMinute)

\* C30: once globalSetup has resolved, the write it issued is no longer pending, and no
\* saved session is overwritten by it.
C30_ResetFinishedBySetup ==
  /\ auth.globalSetup = "resolved" =>
       \A i \in 1..Len(auth.pending) : auth.pending[i].by # "globalSetup"
  /\ auth.overwritten # "globalSetup"

(***************************************************************************)
(* Properties of EnvironmentConfigLoader (checked under SpecLoader).       *)
(***************************************************************************)
\* C26: an initialize call on an initialized loader loads no file and leaves initialized
\* and loadedFiles as they were; an initialize call that fails leaves the loader
\* uninitialized, and a call on an uninitialized loader runs the initialization; a
\* reload runs the initialization from an empty list of loaded files.
C26_InitializeOnceUntilReload ==
  /\ (loader.last.op = "initialize" /\ loader.last.initialized) =>
       /\ ~loader.last.ran
       /\ loader.last.loaded = <<>>
       /\ loader.last.error = "none"
       /\ loader.initialized
       /\ loader.loadedFiles = loader.last.loadedFiles
  /\ (loader.last.op = "initialize" /\ loader.last.error # "none") => ~loader.initialized
  /\ (loader.last.op = "initialize" /\ ~loader.last.initialized) => loader.last.ran
  /\ loader.last.op = "reload" =>
       /\ loader.last.ran
       /\ loader.loadedFiles = loader.last.loaded

\* A reload of an initialized loader with files loaded, after which initialize was called
\* again.
C26_Witness ==
  /\ loader.last.op = "initialize"
  /\ loader.last.initialized
  /\ loader.last.loadedFiles = <<".env", ".env.dev">>
  /\ loader.calls = 3

(***************************************************************************)
(* Properties of overlapping storeBaseEnvKey calls (checked under          *)
(* SpecWriters).                                                           *)
(***************************************************************************)
\* C29 as stated, for every interleaving: every call that has written finds its value
\* under its key name, and no write has replaced or removed a stored value.
C29_NothingLost ==
  /\ ~writers.lost
  /\ \A i \in 1..Len(writers.calls) :
       writers.calls[i].pc = "done" =>
         getKeyValue(baseEnvFile, writers.calls[i].keyName) = writers.calls[i].keyValue

\* C29: when no storeBaseEnvKey call was started or settled while another one was
\* writing, every call that has written finds its value under its key name, and no
\* write has replaced or removed a stored value.
C29_NothingLostOneAtATime ==
  (\A i \in 1..Len(writers.calls) : ~writers.calls[i].overlapped) => C29_NothingLost

\* Two calls for different key names, one after the other, both written.
C29_Witness ==
  /\ Len(writers.calls) = 2
  /\ \A i \in 1..2 : writers.calls[i].pc = "done" /\ ~writers.calls[i].overlapped
  /\ writers.calls[1].keyName # writers.calls[2].keyName

====
